---------------------------- MODULE Spec2Model ----------------------------
(***************************************************************************)
(* Model of the concert-calendar read API of fiski/biljetter:              *)
(*   - the list-events route handler GET  (src/unnamed/part_000, 4-33)     *)
(*   - the event detail page EventPage    (src/app/event/[slug]/page.tsx)  *)
(*                                                                         *)
(* Strings that the code takes apart (the month, genres and venues query   *)
(* parameters, and the slugs they are compared with) are sequences of      *)
(* one-character strings.  Instants are whole hours since the Unix epoch;  *)
(* the runtime's local timezone is a fixed offset in hours.                *)
(***************************************************************************)
EXTENDS Integers, Sequences, FiniteSets, TLC

VARIABLES
    mockEvents,   \* the event store (module-level array of '@/lib/data/mockEvents')
    tz,           \* local timezone of the runtime, hours east of UTC
    request,      \* the last request served
    response,     \* the response it got
    tracked,      \* history: one request chosen up front ...
    first         \* ... the response its first call got, and whether it was repeated

vars == <<mockEvents, tz, request, response, tracked, first>>

----------------------------------------------------------------------------
(* Bounds of the model *)

\* longest store
MaxStore == 3
\* longest raw genres / venues parameter, in characters
MaxParamLen == 2

----------------------------------------------------------------------------
(* JavaScript values and string primitives used by the handler *)

Digits == <<"0", "1", "2", "3", "4", "5", "6", "7", "8", "9">>

IsDigit(c) == \E i \in 1..10 : Digits[i] = c

DigitValue(c) == (CHOOSE i \in 1..10 : Digits[i] = c) - 1

\* a JS number (t = "num"), NaN or undefined
Num(n) == [t |-> "num", v |-> n]
NaN == [t |-> "NaN", v |-> 0]
Undefined == [t |-> "undefined", v |-> 0]

\* an optional query parameter: searchParams.get returns null or a string
Absent == [present |-> FALSE, value |-> <<>>]
Param(s) == [present |-> TRUE, value |-> s]

\* a === b on numbers: NaN and undefined equal no number
StrictEq(a, b) == a.t = "num" /\ b.t = "num" /\ a.v = b.v

\* the month compared one-based: monthNum in place of monthNum - 1
NoMinusOne(a) == a

\* a - 1 : NaN for NaN and for undefined
MinusOne(a) == IF a.t = "num" THEN Num(a.v - 1) ELSE NaN

\* truthiness of a string-or-null: null and "" are falsy
Truthy(p) == p.present /\ p.value # <<>>

RECURSIVE DecimalValue(_)
DecimalValue(s) ==
    IF s = <<>> THEN 0
    ELSE 10 * DecimalValue(SubSeq(s, 1, Len(s) - 1)) + DigitValue(s[Len(s)])

RECURSIVE BinaryValue(_)
BinaryValue(s) ==
    IF s = <<>> THEN 0
    ELSE 2 * BinaryValue(SubSeq(s, 1, Len(s) - 1)) + DigitValue(s[Len(s)])

\* Number(s) for a string s over digits and letters: "" is 0, a run of
\* decimal digits is its value, "0b" followed by binary digits is a binary
\* literal, anything else is NaN.
Number(s) ==
    IF s = <<>> THEN Num(0)
    ELSE IF \A i \in 1..Len(s) : IsDigit(s[i]) THEN Num(DecimalValue(s))
    ELSE IF /\ Len(s) >= 3
            /\ s[1] = "0"
            /\ s[2] \in {"b", "B"}
            /\ \A i \in 3..Len(s) : s[i] \in {"0", "1"}
         THEN Num(BinaryValue(SubSeq(s, 3, Len(s))))
    ELSE NaN

\* s.split(sep): the pieces between separators; always at least one piece
RECURSIVE Split(_, _)
Split(s, sep) ==
    IF \A i \in 1..Len(s) : s[i] # sep THEN <<s>>
    ELSE LET k == CHOOSE i \in 1..Len(s) :
                      s[i] = sep /\ \A j \in 1..(i - 1) : s[j] # sep
         IN  <<SubSeq(s, 1, k - 1)>> \o Split(SubSeq(s, k + 1, Len(s)), sep)

\* the split pieces kept as they are, empty ones included
KeepEmpty(xs) == xs

\* xs.filter(Boolean) on strings: drops the empty ones
FilterBoolean(xs) == SelectSeq(xs, LAMBDA x : x # <<>>)

\* xs.includes(x)
Includes(xs, x) == \E i \in 1..Len(xs) : xs[i] = x

\* searchParams.get(name)?.split(',').filter(Boolean) || []
SlugList(p) == IF p.present THEN FilterBoolean(Split(p.value, ",")) ELSE <<>>

\* const [yearNum, monthNum] = month.split('-').map(Number)
ParseMonth(month) ==
    LET parts == Split(month, "-")
    IN  [yearNum  |-> Number(parts[1]),
         monthNum |-> IF Len(parts) >= 2 THEN Number(parts[2]) ELSE Undefined]

----------------------------------------------------------------------------
(* new Date(t).getFullYear() / getMonth() in the local timezone *)

\* civil date of a day number counted from 1970-01-01 (proleptic Gregorian)
CivilFromDays(days) ==
    LET z    == days + 719468
        era  == z \div 146097
        doe  == z - era * 146097
        yoe  == (doe - doe \div 1460 + doe \div 36524 - doe \div 146096) \div 365
        doy  == doe - (365 * yoe + yoe \div 4 - yoe \div 100)
        mp   == (5 * doy + 2) \div 153
        m    == IF mp < 10 THEN mp + 3 ELSE mp - 9
        y    == yoe + era * 400 + (IF m <= 2 THEN 1 ELSE 0)
    IN  [year |-> y, month |-> m, day |-> doy - (153 * mp + 2) \div 5 + 1]

LocalDay(t, offset) == (t + offset) \div 24

GetFullYear(t, offset) == Num(CivilFromDays(LocalDay(t, offset)).year)

\* zero-based month, 0 = January
GetMonth(t, offset) == Num(CivilFromDays(LocalDay(t, offset)).month - 1)


----------------------------------------------------------------------------
(* The event store: events with their relations resolved *)

Rock == <<"r">>
Jazz == <<"j">>
RockJazz == <<"r", "j">>
Pustervik == <<"p">>
Nefertiti == <<"n">>

Event(slug, startTime, genres, venue) ==
    [slug |-> slug, startTime |-> startTime, genres |-> genres, venue |-> venue]

\* startTime in hours since 1970-01-01T00:00Z:
\*   489547 = 2025-11-05T19:00Z   490151 = 2025-11-30T23:00Z
\*   490895 = 2025-12-31T23:00Z   490896 = 2026-01-01T00:00Z
EventPool ==
    { Event("gig-a", 489547, <<Rock>>, Pustervik),
      Event("gig-b", 490151, <<Jazz>>, Nefertiti),
      Event("gig-c", 490895, <<Rock, Jazz>>, Pustervik),
      Event("gig-d", 490896, <<RockJazz>>, Nefertiti) }

\* stores: sequences of events with pairwise distinct slugs
Stores ==
    { s \in UNION { [1..n -> EventPool] : n \in 0..MaxStore } :
        \A i, j \in DOMAIN s : i # j => s[i].slug # s[j].slug }

\* local timezones of the runtime, hours east of UTC
TzOffsets == {-1, 1}

----------------------------------------------------------------------------
(* The list-events handler *)

\* the copy sorted by start time
SortedByStart(store, stale) ==
    [k \in 1..Len(store) |->
        store[CHOOSE i \in 1..Len(store) :
                Cardinality({ j \in 1..Len(store) :
                                store[j].startTime < store[i].startTime }) = k - 1]]

\* filteredEvents kept at module level: set from the store once, then
\* whatever the last call left in it
StaleFiltered(store, stale) == IF request.op = "none" THEN store ELSE stale

\* let filteredEvents = [...mockEvents]
InitialFiltered(store, stale) == store

\* the month predicate of the first filter
MonthMatches(event, parsed, offset) ==
    /\ StrictEq(GetFullYear(event.startTime, offset), parsed.yearNum)
    /\ StrictEq(GetMonth(event.startTime, offset), MinusOne(parsed.monthNum))

FilterMonth(events, month, offset) ==
    IF Truthy(month)
    THEN LET parsed == ParseMonth(month.value)
         IN  SelectSeq(events, LAMBDA e : MonthMatches(e, parsed, offset))
    ELSE events

\* every in place of some
EveryGenreMatches(event, genres) ==
    \A i \in 1..Len(event.genres) : Includes(genres, event.genres[i])

\* event.genres.some((genre) => genres.includes(genre.slug))
GenreMatches(event, genres) ==
    \E i \in 1..Len(event.genres) : Includes(genres, event.genres[i])

FilterGenres(events, genres) ==
    IF Len(genres) > 0
    THEN SelectSeq(events, LAMBDA e : GenreMatches(e, genres))
    ELSE events

\* only the first requested venue compared
FirstVenueMatches(event, venues) == venues[1] = event.venue

\* venues.includes(event.venue.slug)
VenueMatches(event, venues) == Includes(venues, event.venue)

FilterVenues(events, venues) ==
    IF Len(venues) > 0
    THEN SelectSeq(events, LAMBDA e : VenueMatches(e, venues))
    ELSE events

\* NextResponse.json(filteredEvents): status 200 with the array as body
JsonResponse(body) == [status |-> 200, body |-> body]

\* the three ifs chained with else: only the first supplied dimension filters
FirstFilterOnly(store, stale, offset, month, genres, venues) ==
    IF Truthy(month) THEN FilterMonth(InitialFiltered(store, stale), month, offset)
    ELSE IF Len(SlugList(genres)) > 0
         THEN FilterGenres(InitialFiltered(store, stale), SlugList(genres))
    ELSE FilterVenues(InitialFiltered(store, stale), SlugList(venues))

\* the three filters in the handler's order
FilteredEvents(store, stale, offset, month, genres, venues) ==
    FilterVenues(
        FilterGenres(
            FilterMonth(InitialFiltered(store, stale), month, offset),
            SlugList(genres)),
        SlugList(venues))

\* the store filtered in place
FilteredInPlace(store, filtered) == filtered

\* the store after the handler has run: it filters a copy
StoreAfterGET(store, filtered) == store

----------------------------------------------------------------------------
(* The event detail page *)

\* getEventBySlug(slug): the event of that slug, or undefined
getEventBySlug(store, slug) ==
    IF \E i \in 1..Len(store) : store[i].slug = slug
    THEN [found |-> TRUE,
          event |-> store[CHOOSE i \in 1..Len(store) : store[i].slug = slug]]
    ELSE [found |-> FALSE]

\* the render going on after notFound(): a missing event's fields are read
RenderRegardless(lookup) ==
    IF ~lookup.found
    THEN [status |-> 500, body |-> <<>>]
    ELSE [status |-> 200, body |-> <<lookup.event>>]

\* notFound() ends the render with the not-found outcome; otherwise the
\* page reads the event's fields and renders them
PageOutcome(lookup) ==
    IF ~lookup.found
    THEN [status |-> 404, body |-> <<>>]
    ELSE [status |-> 200, body |-> <<lookup.event>>]

----------------------------------------------------------------------------
(* Requests *)

RECURSIVE PadDigits(_, _)
\* n in decimal, zero-padded to w digits
PadDigits(n, w) ==
    IF w = 0 THEN <<>>
    ELSE PadDigits(n \div 10, w - 1) \o <<Digits[(n % 10) + 1]>>

\* the "YYYY-MM" token of year y, month m
MonthToken(y, m) == PadDigits(y, 4) \o <<"-">> \o PadDigits(m, 2)

TokenYears == {2025, 2026}

WellFormedTokens == { MonthToken(y, m) : y \in TokenYears, m \in 1..12 }

\* other values of the month parameter
OddTokens ==
    { <<"2", "0", "2", "5", "-", "1", "3">>,
      <<"a", "b", "c">>,
      <<"2", "0", "2", "5">>,
      <<"2", "0", "2", "5", "-">>,
      <<"2", "0", "2", "5", "-", "1", "1", "-", "0", "5">>,
      <<"2", "0", "2", "5", "-", "0", "0">>,
      <<"2", "0", "2", "5", "-", "a">>,
      <<"a", "-", "1", "1">>,
      <<"-">>,
      <<"2", "0", "2", "6", "-", "1">>,
      <<"2", "0", "2", "6", "-", "0", "b", "1">>,
      <<>> }

\* all strings over alphabet of length at most n
StringsUpTo(alphabet, n) == UNION { [1..k -> alphabet] : k \in 0..n }

GetRequest(month, genres, venues) ==
    [op |-> "GET", month |-> month, genres |-> genres, venues |-> venues,
     slug |-> ""]

PageRequest(slug) ==
    [op |-> "EventPage", month |-> Absent, genres |-> Absent,
     venues |-> Absent, slug |-> slug]

NoRequest ==
    [op |-> "none", month |-> Absent, genres |-> Absent, venues |-> Absent,
     slug |-> ""]

NoResponse == [status |-> 0, body |-> <<>>]

NotYet == [set |-> FALSE, response |-> NoResponse, again |-> FALSE]

MonthParams == {Absent} \cup { Param(t) : t \in WellFormedTokens \cup OddTokens }

GenreParams == {Absent} \cup { Param(g) : g \in StringsUpTo({"r", "j", ","}, MaxParamLen) }

VenueParams == {Absent} \cup { Param(v) : v \in StringsUpTo({"p", "n", ","}, MaxParamLen) }

\* parameters used together
SomeMonths ==
    { Absent, Param(<<>>), Param(MonthToken(2025, 12)), Param(MonthToken(2026, 1)) }

SomeGenres ==
    { Absent, Param(<<",", ",">>), Param(Rock), Param(<<"r", ",", "j">>) }

SomeVenues ==
    { Absent, Param(<<",", ",">>), Param(Pustervik), Param(<<"p", ",", "n">>) }

GetRequests ==
    { GetRequest(m, Absent, Absent) : m \in MonthParams }
    \cup { GetRequest(Absent, g, Absent) : g \in GenreParams }
    \cup { GetRequest(Absent, Absent, v) : v \in VenueParams }
    \cup { GetRequest(m, g, v) : m \in SomeMonths, g \in SomeGenres, v \in SomeVenues }

PageSlugs == { e.slug : e \in EventPool } \cup {"no-such-gig"}

\* the requests of a client that repeats itself
RepeatRequests ==
    { GetRequest(m, Absent, Absent) :
        m \in { Param(MonthToken(2025, 11)), Param(MonthToken(2025, 12)),
                Param(<<"2", "0", "2", "5", "-", "1", "3">>),
                Param(<<"a", "b", "c">>),
                Param(<<"2", "0", "2", "5">>),
                Param(<<"2", "0", "2", "5", "-">>),
                Param(<<"2", "0", "2", "5", "-", "1", "1", "-", "0", "5">>) } }
    \cup { GetRequest(Absent, g, v) :
             g \in {Absent, Param(Rock), Param(Jazz)},
             v \in {Absent, Param(Pustervik)} }

\* requests whose first response is remembered
TrackedRequests ==
    { GetRequest(Param(MonthToken(2025, 11)), Absent, Absent),
      GetRequest(Param(<<"2", "0", "2", "5", "-", "1", "1", "-", "0", "5">>), Absent, Absent),
      GetRequest(Param(<<"2", "0", "2", "5", "-", "1", "3">>), Absent, Absent),
      GetRequest(Absent, Param(Rock), Absent) }

----------------------------------------------------------------------------
(* Behaviour *)

Init ==
    /\ mockEvents \in Stores
    /\ tz \in TzOffsets
    /\ request = NoRequest
    /\ response = NoResponse
    /\ tracked = NoRequest
    /\ first = NotYet

\* the same, with one request's first response remembered
InitRepeat ==
    /\ mockEvents \in Stores
    /\ tz \in TzOffsets
    /\ request = NoRequest
    /\ response = NoResponse
    /\ tracked \in TrackedRequests
    /\ first = NotYet

\* the history of the tracked request after req got resp
Remember(req, resp) ==
    IF req # tracked THEN first
    ELSE IF ~first.set THEN [set |-> TRUE, response |-> resp, again |-> FALSE]
    ELSE [first EXCEPT !.again = TRUE]

\* GET /api/events, serving req
GET(req) ==
    LET filteredEvents ==
            FilteredEvents(mockEvents, response.body, tz,
                           req.month, req.genres, req.venues)
        resp == JsonResponse(filteredEvents)
    IN  /\ request' = req
        /\ response' = resp
        /\ mockEvents' = StoreAfterGET(mockEvents, filteredEvents)
        /\ first' = Remember(req, resp)
        /\ UNCHANGED <<tz, tracked>>

ListEvents == \E req \in GetRequests : GET(req)

ListEventsAgain == \E req \in RepeatRequests : GET(req)

\* /event/[slug]
EventPage ==
    \E slug \in PageSlugs :
        /\ request' = PageRequest(slug)
        /\ response' = PageOutcome(getEventBySlug(mockEvents, slug))
        /\ UNCHANGED <<mockEvents, tz, tracked, first>>

Next == ListEvents \/ EventPage

Spec == Init /\ [][Next]_vars

NextRepeat == ListEventsAgain \/ EventPage

SpecRepeat == InitRepeat /\ [][NextRepeat]_vars

----------------------------------------------------------------------------
(* Vocabulary of the properties *)

Range(xs) == { xs[i] : i \in 1..Len(xs) }

IsLeapYear(y) == (y % 4 = 0 /\ y % 100 # 0) \/ y % 400 = 0

DaysInMonth(y, m) ==
    IF m = 2 THEN (IF IsLeapYear(y) THEN 29 ELSE 28)
    ELSE IF m \in {4, 6, 9, 11} THEN 30
    ELSE 31

RECURSIVE DaysBeforeYear(_)
\* days from 1970-01-01 to the first of January of year y >= 1970
DaysBeforeYear(y) ==
    IF y <= 1970 THEN 0
    ELSE DaysBeforeYear(y - 1) + (IF IsLeapYear(y - 1) THEN 366 ELSE 365)

RECURSIVE DaysBeforeMonth(_, _)
DaysBeforeMonth(y, m) ==
    IF m = 1 THEN 0 ELSE DaysBeforeMonth(y, m - 1) + DaysInMonth(y, m - 1)

\* first local hour of month m of year y
MonthStart(y, m) == 24 * (DaysBeforeYear(y) + DaysBeforeMonth(y, m))

\* first local hour after month m of year y
MonthEnd(y, m) == MonthStart(y, m) + 24 * DaysInMonth(y, m)

\* the instant t, read on a clock offset hours east of UTC, lies in month m of year y
InCalendarMonth(t, offset, y, m) ==
    MonthStart(y, m) <= t + offset /\ t + offset < MonthEnd(y, m)

RECURSIVE JoinSlugs(_)
\* the slugs joined with commas
JoinSlugs(slugs) ==
    IF Len(slugs) = 1 THEN slugs[1]
    ELSE slugs[1] \o <<",">> \o JoinSlugs(Tail(slugs))

\* non-empty lists of one or two slugs
SlugLists(slugs) == { <<a>> : a \in slugs } \cup { <<a, b>> : a \in slugs, b \in slugs }

GenreSlugs == {Rock, Jazz, RockJazz}

VenueSlugs == {Pustervik, Nefertiti}

RECURSIVE IsSubsequence(_, _)
\* xs is ys with some elements left out
IsSubsequence(xs, ys) ==
    IF xs = <<>> THEN TRUE
    ELSE IF ys = <<>> THEN FALSE
    ELSE IF Head(xs) = Head(ys) THEN IsSubsequence(Tail(xs), Tail(ys))
    ELSE IsSubsequence(xs, Tail(ys))

IsNumeric(seg) == seg # <<>> /\ \A i \in 1..Len(seg) : IsDigit(seg[i])

\* a non-empty month token whose year or month is not a run of digits, or
\* whose month is outside 1..12
MalformedMonth(token) ==
    LET parts == Split(token, "-")
    IN  /\ token # <<>>
        /\ \/ Len(parts) < 2
           \/ ~IsNumeric(parts[1])
           \/ ~IsNumeric(parts[2])
           \/ DecimalValue(parts[2]) \notin 1..12

\* a genres / venues parameter that names no slug
NamesNothing(p) == \A i \in 1..Len(p.value) : p.value[i] = ","

\* what a fresh handler answers to (month, genres, venues)
Answer(month, genres, venues) ==
    FilteredEvents(mockEvents, mockEvents, tz, month, genres, venues)

GigA == Event("gig-a", 489547, <<Rock>>, Pustervik)
GigB == Event("gig-b", 490151, <<Jazz>>, Nefertiti)
GigC == Event("gig-c", 490895, <<Rock, Jazz>>, Pustervik)
GigD == Event("gig-d", 490896, <<RockJazz>>, Nefertiti)

----------------------------------------------------------------------------
(* Properties *)

\* C1: a GET with only month = "YYYY-MM" (year y, month m in 1..12) answers
\* 200 with exactly the events of the store whose start instant, read in the
\* runtime's timezone, lies in month m of year y.
C1_MonthFilter ==
    \A y \in TokenYears, m \in 1..12 :
        request = GetRequest(Param(MonthToken(y, m)), Absent, Absent) =>
            /\ response.status = 200
            /\ \A e \in EventPool :
                   e \in Range(response.body) <=>
                       /\ e \in Range(mockEvents)
                       /\ InCalendarMonth(e.startTime, tz, y, m)

\* C1 witness: east of UTC, December 2025 was asked for; the event starting
\* 2025-11-30T23:00Z is returned and an event of the store is left out.
C1_Witness ==
    /\ request = GetRequest(Param(MonthToken(2025, 12)), Absent, Absent)
    /\ tz = 1
    /\ GigB \in Range(response.body)
    /\ GigA \in Range(mockEvents)
    /\ GigA \notin Range(response.body)

\* C2: a GET with a malformed month token (year or month not numeric, or
\* month outside 1..12) answers with an error status, not with a 200 list.
C2_MalformedMonthIsError ==
    (request.op = "GET" /\ request.month.present
        /\ MalformedMonth(request.month.value)) => response.status >= 400

\* C3: a GET with only genres = G (one or more slugs joined by commas)
\* answers with exactly the events of the store that have a genre slug in G.
C3_GenreFilter ==
    \A G \in SlugLists(GenreSlugs) :
        request = GetRequest(Absent, Param(JoinSlugs(G)), Absent) =>
            \A e \in EventPool :
                e \in Range(response.body) <=>
                    /\ e \in Range(mockEvents)
                    /\ Range(e.genres) \cap Range(G) # {}

\* C3 witness: genres = "r,j" returned the event with both genres and left
\* out the event whose only genre is "rj".
C3_Witness ==
    /\ request = GetRequest(Absent, Param(<<"r", ",", "j">>), Absent)
    /\ GigC \in Range(response.body)
    /\ GigD \in Range(mockEvents)
    /\ GigD \notin Range(response.body)

\* C4: a GET with only venues = V (one or more slugs joined by commas)
\* answers with exactly the events of the store whose venue slug is in V.
C4_VenueFilter ==
    \A V \in SlugLists(VenueSlugs) :
        request = GetRequest(Absent, Absent, Param(JoinSlugs(V))) =>
            \A e \in EventPool :
                e \in Range(response.body) <=>
                    /\ e \in Range(mockEvents)
                    /\ e.venue \in Range(V)

\* C4 witness: venues = "p,n" returned an event of the second venue.
C4_Witness ==
    /\ request = GetRequest(Absent, Absent, Param(<<"p", ",", "n">>))
    /\ GigB \in Range(response.body)
    /\ GigA \in Range(response.body)

\* C5: the events a GET with (month, genres, venues) returns are exactly those
\* returned by all three single-parameter queries, and applying the three
\* filters in another order gives the same list.
C5_Intersection ==
    request.op = "GET" =>
        LET m == request.month
            g == request.genres
            v == request.venues
        IN  /\ Range(response.body) =
                   Range(Answer(m, Absent, Absent))
                   \cap Range(Answer(Absent, g, Absent))
                   \cap Range(Answer(Absent, Absent, v))
            /\ response.body =
                   FilterMonth(
                       FilterGenres(FilterVenues(mockEvents, SlugList(v)), SlugList(g)),
                       m, tz)
            /\ response.body =
                   FilterGenres(
                       FilterVenues(FilterMonth(mockEvents, m, tz), SlugList(v)),
                       SlugList(g))

\* C5 witness: all three parameters were given, each of them alone leaves
\* more than the three together, and something is returned.
C5_Witness ==
    /\ request.op = "GET"
    /\ Truthy(request.month)
    /\ Len(SlugList(request.genres)) > 0
    /\ Len(SlugList(request.venues)) > 0
    /\ response.body # <<>>
    /\ Len(response.body) < Len(Answer(request.month, Absent, Absent))
    /\ Len(response.body) < Len(Answer(Absent, request.genres, Absent))
    /\ Len(response.body) < Len(Answer(Absent, Absent, request.venues))

\* C6: with month absent or "", and genres and venues each absent, "" or
\* commas only, the GET answers with the whole store in store order.
C6_NoFilter ==
    (/\ request.op = "GET"
     /\ ~Truthy(request.month)
     /\ NamesNothing(request.genres)
     /\ NamesNothing(request.venues)) => response.body = mockEvents

\* C6 witness: month = "", genres = ",,", venues = ",," against a store of
\* two or more events.
C6_Witness ==
    /\ request = GetRequest(Param(<<>>), Param(<<",", ",">>), Param(<<",", ",">>))
    /\ Len(mockEvents) >= 2
    /\ response.body = mockEvents

\* C7: the list a GET returns is a subsequence of the store: store events
\* only, none repeated, in store order.
C7_Subsequence ==
    request.op = "GET" =>
        /\ IsSubsequence(response.body, mockEvents)
        /\ \A i, j \in 1..Len(response.body) :
               i # j => response.body[i] # response.body[j]

\* C7 witness: the store is not in chronological order and the GET returned
\* its first and its last event, the later one first.
C7_Witness ==
    /\ request.op = "GET"
    /\ Len(mockEvents) = 3
    /\ response.body = <<mockEvents[1], mockEvents[3]>>
    /\ mockEvents[1].startTime > mockEvents[3].startTime

\* C8: no GET changes the store, and a repeated request gets the response its
\* first call got.
C8_ReadOnly ==
    /\ [][mockEvents' = mockEvents]_vars
    /\ [](first.set /\ request = tracked => response = first.response)

\* C8 witness: the tracked request was repeated, and afterwards another GET
\* filtered events out of a store that still holds them.
C8_Witness ==
    /\ first.again
    /\ request.op = "GET"
    /\ request # tracked
    /\ Len(response.body) < Len(mockEvents)
    /\ first.response.body # <<>>

\* C9: the event page renders the event of the store that has the requested
\* slug; when no event has it the outcome is not-found, and never a fault.
C9_EventPage ==
    request.op = "EventPage" =>
        LET hits == { e \in Range(mockEvents) : e.slug = request.slug }
        IN  /\ response.status \in {200, 404}
            /\ hits # {} => response.status = 200 /\ Range(response.body) = hits
            /\ hits = {} => response.status = 404 /\ response.body = <<>>

\* C9 witness: a non-empty store was asked for a slug none of its events has.
C9_Witness ==
    /\ request = PageRequest("no-such-gig")
    /\ mockEvents # <<>>
    /\ response.status = 404

\* C10: whatever the month parameter, the GET answers 200 with a list, and a
\* repeated month token gets the response its first call got.
C10_MonthNeverFaults ==
    request.op = "GET" =>
        /\ response.status = 200
        /\ IsSubsequence(response.body, mockEvents)
        /\ (first.set /\ request = tracked /\ request.month.present)
               => response = first.response

\* C10 witness: the token with extra segments, "2025-11-05", was repeated and
\* got a non-empty list both times.
C10_Witness ==
    /\ tracked.month = Param(<<"2", "0", "2", "5", "-", "1", "1", "-", "0", "5">>)
    /\ request = tracked
    /\ first.again
    /\ response.body # <<>>

============================================================================
